---- MODULE Spec2Model ----
(***************************************************************************)
(* A model of macmoji: the emoji-name normaliser (utils.py), the asset     *)
(* scan (inserter.assets_info), the glyph injector                         *)
(* (inserter.insert_all_emojis / insert_emoji), the threaded progress      *)
(* tasks (utils.ProgressTask and subclasses), the font-generation          *)
(* command (cli/create.font), the registry of glyph names with its cache   *)
(* file (utils.valid_emoji_names) and the generation of the base trees     *)
(* (utils.generate_base_files, font.generate_base_emoji_ttx).              *)
(*                                                                         *)
(* Strings the program takes apart (names, file stems) are sequences of    *)
(* one-character strings, so that split, upper, lstrip and int are         *)
(* computed and not assumed.                                               *)
(***************************************************************************)
EXTENDS Integers, Sequences, FiniteSets, TLC

VARIABLES
    \* ---- name normaliser ----
    nx,     \* the raw name given to reformat_emoji_name
    ny,     \* the outcome of reformat_emoji_name(nx)
    nz,     \* the outcome of reformat_emoji_name on ny's value
    npc     \* "input" -> "once" -> "twice"

normVars == <<nx, ny, nz, npc>>

VARIABLES
    \* ---- asset scan (inserter.assets_info), run on two enumeration orders ----
    listing1,       \* assets_dir.iterdir() as the first scan sees it
    listing2,       \* the same entries as the second scan sees them
    scan,           \* which scan is running: 1 or 2
    idx,            \* position of the `for asset_path in ...` loop
    info,           \* the dict `info` (insertion-ordered)
    ignored_paths,  \* the list `ignored_paths`
    bpc,            \* "scan" -> "between" -> "scan" -> "done"
    result1,        \* outcome of the first scan
    result2         \* outcome of the second scan

buildVars == <<listing1, listing2, scan, idx, info, ignored_paths, bpc,
               result1, result2>>

VARIABLES
    \* ---- files, and one call of inserter.insert_all_emojis ----
    fs,             \* the files under BASE_EMOJI_FONT_PATH: name -> content
    assets_dir,     \* assets_dir.iterdir() of the directory given to the injector
    strikes,        \* the parsed tree: root.findall("./sbix/strike")
    assets,         \* the dict `assets` returned by assets_info
    ignored,        \* the list `ignored`
    successful,     \* the list `successful`
    ipos,           \* position of the `for name, size_paths in assets.items()` loop
    ipc,            \* "parse" -> "assets" -> "insert" -> "returned" | "raised"
    fs0             \* the files as they were before the first call or run

injectVars == <<fs, assets_dir, strikes, assets, ignored, successful, ipos, ipc, fs0>>

\* The variables of one insert_all_emojis call that the font command does not use.
injectLocal == <<strikes, assets, ignored, successful, ipos, ipc>>

VARIABLES
    \* ---- progress tasks (utils.ProgressTask) and their caller ----
    tasks,          \* task name -> ProgressTask object with its rich task and threads
    program,        \* the calls the main thread makes, in order
    ip,             \* index in `program` of the call being made
    phase,          \* position inside that call: "call", "join_target", "join_progress"
    joins,          \* task name -> number of join() calls that have returned
    transitions,    \* task name -> number of _set_completed calls that changed the bar
    out_size,       \* st_size of the tracked output file, when it exists
    runs            \* number of font commands started

taskVars == <<tasks, program, ip, phase, joins, transitions, out_size, runs>>

VARIABLES
    \* ---- glyph registry (utils.valid_emoji_names) ----
    cache,          \* the file valid_emoji_names.txt: absent, or its text
    memo,           \* the functools.cache entry of valid_emoji_names in this process
    loaded,         \* the outcome of the last valid_emoji_names() call
    rpc,            \* "ready", or "building" between open("w") and the end of the build
    built,          \* the names of the last build that returned
    loads           \* number of valid_emoji_names() calls made

regVars == <<cache, memo, loaded, rpc, built, loads>>

vars == <<nx, ny, nz, npc,
          listing1, listing2, scan, idx, info, ignored_paths, bpc,
          result1, result2,
          fs, assets_dir, strikes, assets, ignored, successful, ipos, ipc, fs0,
          tasks, program, ip, phase, joins, transitions, out_size, runs,
          cache, memo, loaded, rpc, built, loads>>

(***************************************************************************)
(* Bounds of the model.                                                    *)
(***************************************************************************)
\* Longest raw name enumerated for the normaliser.
MaxLen == 4
\* Largest rotation applied to a directory listing to get another order.
MaxShift == 3
\* Largest number of sbix strikes of a font tree.
MaxStrikes == 10
\* Largest size of the tracked output file, in units of 95 MB.
MaxSize == 3
\* Largest number of join() calls made on a task after its run().
MaxJoins == 2
\* Largest number of font commands run one after the other.
MaxRuns == 2

(***************************************************************************)
(* Generic sequence helpers.                                               *)
(***************************************************************************)
SeqsUpTo(S, n) == UNION {[1..k -> S] : k \in 0..n}

RECURSIVE IndexOf(_, _, _)
\* Least index >= i at which s holds c, or 0 when there is none.
IndexOf(s, c, i) ==
    IF i > Len(s) THEN 0
    ELSE IF s[i] = c THEN i
    ELSE IndexOf(s, c, i + 1)

Contains(s, c) == IndexOf(s, c, 1) # 0

RECURSIVE Split(_, _)
\* str.split(sep): always at least one part, empty parts are kept.
Split(s, sep) ==
    LET i == IndexOf(s, sep, 1) IN
    IF i = 0 THEN <<s>>
    ELSE <<SubSeq(s, 1, i - 1)>> \o Split(SubSeq(s, i + 1, Len(s)), sep)

RECURSIVE Join(_, _)
\* sep.join(parts)
Join(parts, sep) ==
    IF Len(parts) = 0 THEN <<>>
    ELSE IF Len(parts) = 1 THEN parts[1]
    ELSE parts[1] \o <<sep>> \o Join(Tail(parts), sep)

(***************************************************************************)
(* utils.py: _codify and reformat_emoji_name.                              *)
(***************************************************************************)
\* The characters raw names are drawn from.
NameAlphabet == {"u", "U", "0", "1", "f", "F", "_", "."}

\* str.upper on one character.
UpperChar(c) ==
    CASE c = "u" -> "U"
      [] c = "f" -> "F"
      [] c = "a" -> "A"
      [] OTHER -> c

Upper(s) == [i \in 1..Len(s) |-> UpperChar(s[i])]

\* A mutation of str.lstrip("0") that removes one leading zero only.
lstrip_one_zero(s) ==
    IF Len(s) > 0 /\ s[1] = "0" THEN Tail(s) ELSE s

RECURSIVE LStripZero(_)
\* str.lstrip("0")
LStripZero(s) ==
    IF Len(s) > 0 /\ s[1] = "0" THEN LStripZero(Tail(s)) ELSE s

\* A mutation of _codify that keeps a leading "U" instead of dropping it.
codify_keeps_prefix(code) ==
    <<"u">> \o LStripZero(Upper(code))

\* _codify(code); code is never empty here (reformat_emoji_name rejects
\* empty codes before mapping _codify over them).
codify(code) ==
    LET up == Upper(code)
        noU == IF up[1] = "U" THEN Tail(up) ELSE up
    IN  <<"u">> \o LStripZero(noU)

\* The outcome of a call that may raise ValueError.
Raised == [ok |-> FALSE, value |-> <<>>]
Returned(v) == [ok |-> TRUE, value |-> v]

\* A mutation of reformat_emoji_name that drops empty codes instead of
\* raising on them.
reformat_drops_empty_codes(name) ==
    LET dot == IndexOf(name, ".", 1)
        base_name == IF dot = 0 THEN name ELSE SubSeq(name, 1, dot - 1)
        modifiers == IF dot = 0 THEN <<>> ELSE SubSeq(name, dot + 1, Len(name))
        codes == SelectSeq(Split(base_name, "_"), LAMBDA c : c # <<>>)
    IN  Returned(
            Join([i \in 1..Len(codes) |-> codify(codes[i])], "_")
            \o (IF modifiers # <<>> THEN <<".">> ELSE <<>>)
            \o modifiers)

\* reformat_emoji_name(name)
reformat_emoji_name(name) ==
    LET dot == IndexOf(name, ".", 1)
        \* name.split(".", 1) has exactly two parts whenever "." is in name,
        \* so the `except ValueError` of lines 344-345 is never entered.
        base_name == IF dot = 0 THEN name ELSE SubSeq(name, 1, dot - 1)
        modifiers == IF dot = 0 THEN <<>> ELSE SubSeq(name, dot + 1, Len(name))
        codes == Split(base_name, "_")
    IN  IF \E i \in 1..Len(codes) : codes[i] = <<>>
        THEN Raised
        ELSE Returned(
                Join([i \in 1..Len(codes) |-> codify(codes[i])], "_")
                \o (IF modifiers # <<>> THEN <<".">> ELSE <<>>)
                \o modifiers)

(***************************************************************************)
(* config.py and the asset file naming convention.                         *)
(***************************************************************************)
ASSET_SIZES == <<20, 26, 32, 40, 48, 52, 64, 96, 160>>

DigitChars == <<"0", "1", "2", "3", "4", "5", "6", "7", "8", "9">>

RECURSIVE Digits(_)
\* str(n) for n >= 0
Digits(n) ==
    IF n < 10 THEN <<DigitChars[n + 1]>>
    ELSE Digits(n \div 10) \o <<DigitChars[(n % 10) + 1]>>

\* asset_file_name(unicode, size) without the ".png" suffix: the stem.
asset_file_name(unicode, size) == unicode \o <<" ">> \o Digits(size)

IsDigit(c) == \E d \in 1..10 : DigitChars[d] = c

DigitValue(c) == (CHOOSE d \in 1..10 : DigitChars[d] = c) - 1

\* Whether int(s) returns: decimal digits, single underscores allowed between
\* digits (signs and surrounding blanks are outside the modelled alphabet).
IntParses(s) ==
    /\ Len(s) > 0
    /\ IsDigit(s[1])
    /\ IsDigit(s[Len(s)])
    /\ \A i \in 1..Len(s) : IsDigit(s[i]) \/ s[i] = "_"
    /\ \A i \in 1..(Len(s) - 1) : ~(s[i] = "_" /\ s[i + 1] = "_")

RECURSIVE IntValue(_)
\* int(s) for a string that parses
IntValue(s) ==
    IF Len(s) = 0 THEN 0
    ELSE IF s[Len(s)] = "_" THEN IntValue(SubSeq(s, 1, Len(s) - 1))
    ELSE IntValue(SubSeq(s, 1, Len(s) - 1)) * 10 + DigitValue(s[Len(s)])

(***************************************************************************)
(* inserter.py: assets_info.  A directory entry is a record                *)
(*   [stem: file name without suffix, is_file, data: the file's bytes];     *)
(* a path is identified by its stem.  Python dicts keep insertion order,    *)
(* so `info` is a sequence of [name, assets], assets a sequence of          *)
(* [size, path].                                                            *)
(***************************************************************************)
Range(s) == {s[i] : i \in 1..Len(s)}

Names(d) == {d[i].name : i \in 1..Len(d)}

Lookup(d, name) == d[CHOOSE i \in 1..Len(d) : d[i].name = name].assets

Sizes(asset) == {asset[i].size : i \in 1..Len(asset)}

\* A wrong completeness test: the required sizes are merely contained.
has_all_sizes_subset(asset) ==
    Range(ASSET_SIZES) \subseteq Sizes(asset)

\* A wrong completeness test: the key list is compared in order.
has_all_sizes_ordered(asset) ==
    [i \in 1..Len(asset) |-> asset[i].size] = ASSET_SIZES

\* set(asset.keys()) == set(ASSET_SIZES)
has_all_sizes(asset) ==
    Sizes(asset) = Range(ASSET_SIZES)

\* The state of the scan loop.
ScanState(i, ig, r) == [info |-> i, ignored |-> ig, raised |-> r]

Ignore(path, reason) == [path |-> path, reason |-> reason]

\* A mutation of the accumulation in which a later path of a (name, size)
\* replaces the one already there.
accumulate_overwriting(d, name, size, path) ==
    LET withName == IF name \in Names(d) THEN d
                    ELSE Append(d, [name |-> name, assets |-> <<>>])
        k == CHOOSE i \in 1..Len(withName) : withName[i].name = name
    IN  IF size \in Sizes(withName[k].assets)
        THEN [withName EXCEPT ![k].assets =
                 [j \in 1..Len(@) |->
                     IF @[j].size = size THEN [size |-> size, path |-> path]
                     ELSE @[j]]]
        ELSE [withName EXCEPT ![k].assets =
                 Append(@, [size |-> size, path |-> path])]

\* info[name][size] = asset_path, guarded as in lines 70-73.
Accumulate(d, name, size, path) ==
    LET withName == IF name \in Names(d) THEN d
                    ELSE Append(d, [name |-> name, assets |-> <<>>])
        k == CHOOSE i \in 1..Len(withName) : withName[i].name = name
    IN  IF size \in Sizes(withName[k].assets)
        THEN withName
        ELSE [withName EXCEPT ![k].assets =
                 Append(@, [size |-> size, path |-> path])]

\* One iteration of the loop of lines 55-73 on entry e.
ScanStep(st, e) ==
    IF ~e.is_file
    THEN ScanState(st.info, Append(st.ignored, Ignore(e.stem, "is a directory")), FALSE)
    ELSE
        LET parts == Split(e.stem, " ") IN
        IF Len(parts) # 2 \/ ~IntParses(parts[Len(parts)])
        THEN ScanState(st.info,
                       Append(st.ignored, Ignore(e.stem, "has invalid file name")),
                       FALSE)
        ELSE
            LET name == reformat_emoji_name(parts[1]) IN
            IF ~name.ok
            THEN ScanState(st.info, st.ignored, TRUE)   \* ValueError leaves assets_info
            ELSE ScanState(Accumulate(st.info, name.value, IntValue(parts[2]), e.stem),
                           st.ignored, FALSE)

RECURSIVE FilterInfo(_, _, _)
\* The loop of lines 75-86 from position k on: <<filtered_info, ignored_paths>>.
FilterInfo(d, k, acc) ==
    IF k > Len(d) THEN acc
    ELSE IF has_all_sizes(d[k].assets)
    THEN FilterInfo(d, k + 1, [acc EXCEPT !.assets = Append(@, d[k])])
    ELSE FilterInfo(d, k + 1,
            [acc EXCEPT !.ignored = @ \o
                [i \in 1..Len(d[k].assets) |->
                    Ignore(d[k].assets[i].path, "has missing/invalid sizes")]])

\* What a call of assets_info gives its caller.
BuildRaised == [raised |-> TRUE, assets |-> <<>>, ignored |-> <<>>]
BuildReturn(st) ==
    FilterInfo(st.info, 1, [raised |-> FALSE, assets |-> <<>>, ignored |-> st.ignored])

RECURSIVE ScanAll(_, _, _)
ScanAll(listing, k, st) ==
    IF st.raised THEN st
    ELSE IF k > Len(listing) THEN st
    ELSE ScanAll(listing, k + 1, ScanStep(st, listing[k]))

\* assets_info(assets_dir) as one function of the directory listing.
assets_info(listing) ==
    LET st == ScanAll(listing, 1, ScanState(<<>>, <<>>, FALSE)) IN
    IF st.raised THEN BuildRaised ELSE BuildReturn(st)

\* The AssetSet as a mapping: dict equality ignores insertion order.
AsMap(d) ==
    UNION {{<<d[i].name, d[i].assets[j].size, d[i].assets[j].path>> :
                j \in 1..Len(d[i].assets)} : i \in 1..Len(d)}

(***************************************************************************)
(* inserter.py: png_to_hex, insert_emoji, insert_all_emojis.               *)
(* A file is a record with a `kind`; a TTX file holds the strikes of its   *)
(* sbix table, a strike is a sequence of glyph elements                    *)
(*   [name, has_hexdata, hexdata].                                         *)
(***************************************************************************)
HexChars == <<"0", "1", "2", "3", "4", "5", "6", "7", "8", "9",
              "a", "b", "c", "d", "e", "f">>

RECURSIVE BytesHex(_)
\* bytes.hex()
BytesHex(data) ==
    IF Len(data) = 0 THEN <<>>
    ELSE <<HexChars[(data[1] \div 16) + 1], HexChars[(data[1] % 16) + 1]>>
         \o BytesHex(Tail(data))

\* f.read() of the asset at `path` of the directory `listing`.
ReadBytes(listing, path) ==
    listing[CHOOSE i \in 1..Len(listing) : listing[i].stem = path].data

\* png_to_hex(input_path)
png_to_hex(listing, path) == BytesHex(ReadBytes(listing, path))

Absent == [kind |-> "absent"]
Garbage == [kind |-> "garbage"]
TtxFile(sk) == [kind |-> "ttx", strikes |-> sk]

\* strike.find("./glyph[@name='<name>']/hexdata"): the index of the first
\* glyph element of that name that has a hexdata child, 0 for None.
FindHexdata(strike, name) ==
    LET hits == {i \in 1..Len(strike) :
                    strike[i].name = name /\ strike[i].has_hexdata}
    IN  IF hits = {} THEN 0
        ELSE CHOOSE i \in hits : \A j \in hits : i <= j

\* A mutation of the lookup that takes the first path whatever the size.
path_of_first_size(size_paths, size) == size_paths[1].path

\* size_paths[size]
PathOfSize(size_paths, size) ==
    size_paths[CHOOSE j \in 1..Len(size_paths) : size_paths[j].size = size].path

\* A wrong insert_emoji step: every glyph of the strike gets the payload.
patch_strike_all(strike, name, payload) ==
    [i \in 1..Len(strike) |->
        IF strike[i].has_hexdata THEN [strike[i] EXCEPT !.hexdata = payload]
        ELSE strike[i]]

\* glyph.text = payload for the glyph of that name (line 137).
patch_strike(strike, name, payload) ==
    [strike EXCEPT ![FindHexdata(strike, name)].hexdata = payload]

RECURSIVE insert_from_skipping(_, _, _, _, _)
\* A mutation of the loop that passes over a strike without the glyph
\* instead of raising.
insert_from_skipping(sk, i, name, size_paths, listing) ==
    IF i > Len(sk) \/ i > Len(ASSET_SIZES)
    THEN [strikes |-> sk, raised |-> FALSE]
    ELSE IF FindHexdata(sk[i], name) = 0
    THEN insert_from_skipping(sk, i + 1, name, size_paths, listing)
    ELSE insert_from_skipping(
            [sk EXCEPT ![i] = patch_strike(sk[i], name,
                png_to_hex(listing, PathOfSize(size_paths, ASSET_SIZES[i])))],
            i + 1, name, size_paths, listing)

RECURSIVE InsertFrom(_, _, _, _, _)
\* The loop `for strike, size in zip(strikes, ASSET_SIZES)` from pair i on.
InsertFrom(sk, i, name, size_paths, listing) ==
    IF i > Len(sk) \/ i > Len(ASSET_SIZES)
    THEN [strikes |-> sk, raised |-> FALSE]
    ELSE IF FindHexdata(sk[i], name) = 0
    THEN [strikes |-> sk, raised |-> TRUE]
    ELSE InsertFrom(
            [sk EXCEPT ![i] = patch_strike(sk[i], name,
                png_to_hex(listing, PathOfSize(size_paths, ASSET_SIZES[i])))],
            i + 1, name, size_paths, listing)

\* insert_emoji(strikes, name, size_paths)
insert_emoji(sk, name, size_paths, listing) ==
    InsertFrom(sk, 1, name, size_paths, listing)

RECURSIVE InsertAll(_, _, _, _)
\* The loop `for name, size_paths in assets.items()` from position k on.
InsertAll(sk, d, k, listing) ==
    IF k > Len(d) THEN [strikes |-> sk, raised |-> FALSE]
    ELSE LET r == insert_emoji(sk, d[k].name, d[k].assets, listing) IN
         IF r.raised THEN r
         ELSE InsertAll(r.strikes, d, k + 1, listing)

\* insert_all_emojis(assets_dir, ttx_in, ttx_out) as a function of the
\* content of ttx_in and the directory listing: whether it raised, and the
\* content written to ttx_out when it did not.
insert_all_emojis(ttx_in, listing) ==
    IF ttx_in.kind # "ttx"
    THEN [raised |-> TRUE, out |-> Absent]      \* ET.parse fails
    ELSE LET a == assets_info(listing) IN
         IF a.raised THEN [raised |-> TRUE, out |-> Absent]
         ELSE LET r == InsertAll(ttx_in.strikes, a.assets, 1, listing) IN
              IF r.raised THEN [raised |-> TRUE, out |-> Absent]
              ELSE [raised |-> FALSE, out |-> TtxFile(r.strikes)]

(***************************************************************************)
(* The files of BASE_EMOJI_FONT_PATH and the generated font.               *)
(***************************************************************************)
BASE_1 == "AppleColorEmoji.ttx"
BASE_2 == ".AppleColorEmojiUI.ttx"
USR_TTX_1 == "AppleColorEmoji-usr.ttx"
USR_TTX_2 == ".AppleColorEmojiUI-usr.ttx"
USR_TTF_1 == "AppleColorEmoji-usr.ttf"
USR_TTF_2 == ".AppleColorEmojiUI-usr.ttf"
GENERATED_FONT == "Apple Color Emoji.ttc"

\* The paths base_emoji_process_cleanup removes.
CleanupPaths == {"AppleColorEmoji.ttc", "AppleColorEmoji.ttf", ".AppleColorEmojiUI.ttf",
                 "AppleColorEmoji-tmp.ttx", ".AppleColorEmojiUI-tmp.ttx",
                 USR_TTX_1, USR_TTX_2, USR_TTF_1, USR_TTF_2}

Paths == CleanupPaths \cup {BASE_1, BASE_2, GENERATED_FONT}

(***************************************************************************)
(* utils.py: ProgressTask, ProgressFileTask, ProgressSimpleTask,           *)
(* ProgressCompletedTask.  A task object is a record: the fields of its    *)
(* rich task (total, completed), _progress_active, and the positions of    *)
(* its two threads.                                                        *)
(***************************************************************************)
\* total=None of progress.add_task: the bar is animated, there is no total.
None == -1

\* output_size of the "Generating TTC file" task, in units of 95 MB.
TTC_SIZE == 2

\* ProgressTask.__init__ (no thread is started yet).
ProgressTask(kind, runner, total, completed, output_file) ==
    [kind |-> kind, progress_runner |-> runner,
     total |-> total, completed |-> completed,
     progress_active |-> FALSE,
     target |-> "idle",         \* "idle", "running", "returned", "raised"
     observer |-> "idle",       \* "idle", "entry", "check", "poll", "done"
     output_file |-> output_file]

ProgressFileTask(output_file, output_size) ==
    ProgressTask("file", TRUE, output_size, 0, output_file)

ProgressSimpleTask == ProgressTask("simple", FALSE, None, 0, "")

ProgressCompletedTask == ProgressTask("completed", FALSE, 1, 1, "")

\* A wrong _set_completed: only the animated bar is completed.
set_completed_no_total(t) ==
    IF t.total = None
    THEN [t EXCEPT !.total = 1, !.completed = 1]
    ELSE t

\* ProgressTask._set_completed
set_completed(t) ==
    IF t.total = None
    THEN [t EXCEPT !.total = 1, !.completed = 1]
    ELSE [t EXCEPT !.total = t.completed]

\* progress_loop of the task's class; `exists` and `size` are what
\* output_file.stat() finds.
progress_loop(t, exists, size) ==
    IF t.kind = "file" /\ exists
    THEN [t EXCEPT !.completed = size]
    ELSE t

\* ProgressTask.start
start(t) ==
    [t EXCEPT !.progress_active = TRUE, !.target = "running", !.observer = "entry"]

\* A join() that does not wait for the thread.
thread_not_joined(state) == TRUE

\* Thread.join() returns once the thread's function has returned or raised.
target_thread_joined(state) == state \in {"returned", "raised"}

\* A join() that does not wait for the progress thread.
progress_not_joined(state) == TRUE

progress_thread_joined(state) == state = "done"

(***************************************************************************)
(* The normaliser applied once, then again to its own result.              *)
(***************************************************************************)
NormIdle ==
    /\ nx = <<>>
    /\ ny = Raised
    /\ nz = Raised
    /\ npc = "off"

BuildIdle ==
    /\ listing1 = <<>>
    /\ listing2 = <<>>
    /\ scan = 0
    /\ idx = 0
    /\ info = <<>>
    /\ ignored_paths = <<>>
    /\ bpc = "off"
    /\ result1 = BuildRaised
    /\ result2 = BuildRaised

InjectIdle ==
    /\ fs = [p \in Paths |-> Absent]
    /\ fs0 = fs
    /\ assets_dir = <<>>
    /\ strikes = <<>>
    /\ assets = <<>>
    /\ ignored = <<>>
    /\ successful = <<>>
    /\ ipos = 0
    /\ ipc = "off"

TaskIdle ==
    /\ tasks = <<>>
    /\ program = <<>>
    /\ ip = 0
    /\ phase = "off"
    /\ joins = <<>>
    /\ transitions = <<>>
    /\ out_size = 0
    /\ runs = 0

RegIdle ==
    /\ cache = [kind |-> "absent"]
    /\ memo = [set |-> FALSE, value |-> {}]
    /\ loaded = [status |-> "none", value |-> {}]
    /\ rpc = "off"
    /\ built = {}
    /\ loads = 0

InitNorm ==
    /\ nx \in SeqsUpTo(NameAlphabet, MaxLen)
    /\ ny = Raised
    /\ nz = Raised
    /\ npc = "input"
    /\ BuildIdle
    /\ InjectIdle
    /\ TaskIdle
    /\ RegIdle

\* normalize(x)
Normalize ==
    /\ npc = "input"
    /\ ny' = reformat_emoji_name(nx)
    /\ npc' = IF ny'.ok THEN "once" ELSE "rejected"
    /\ UNCHANGED <<nx, nz>>
    /\ UNCHANGED <<buildVars, injectVars, taskVars, regVars>>

\* normalize(normalize(x))
Renormalize ==
    /\ npc = "once"
    /\ nz' = reformat_emoji_name(ny.value)
    /\ npc' = "twice"
    /\ UNCHANGED <<nx, ny>>
    /\ UNCHANGED <<buildVars, injectVars, taskVars, regVars>>

NextNorm == Normalize \/ Renormalize

SpecNorm == InitNorm /\ [][NextNorm]_vars

\* C10: normalisation is idempotent: for every accepted x,
\* normalize(normalize(x)) succeeds and equals normalize(x).
NormalizeIdempotent ==
    npc = "twice" => (nz.ok /\ nz.value = ny.value)

\* C10 witness: an accepted name with a prefix, a lower-case digit, a leading zero, two
\* segments or an empty suffix has been normalised twice.
NormalizeIdempotentWitness ==
    /\ npc = "twice"
    /\ nx = <<"U", "0", "f", ".">>
    /\ ny.value = <<"u", "F">>

\* The part of a raw name before its first ".": the codepoint part.
CodepointPart(x) ==
    IF \E i \in 1..Len(x) : x[i] = "."
    THEN SubSeq(x, 1, (CHOOSE i \in 1..Len(x) :
                          x[i] = "." /\ \A j \in 1..(i - 1) : x[j] # ".") - 1)
    ELSE x

\* A codepoint part with an empty segment: empty, or with a leading, a
\* trailing or two consecutive "_".
HasEmptySegment(b) ==
    \/ b = <<>>
    \/ b[1] = "_"
    \/ b[Len(b)] = "_"
    \/ \E i \in 1..(Len(b) - 1) : b[i] = "_" /\ b[i + 1] = "_"

\* More than one "."-separated suffix after the codepoint part.
MoreThanOneSuffix(x) == Cardinality({i \in 1..Len(x) : x[i] = "."}) > 1

\* C11 as stated: normalize fails for every input that is empty, has an
\* empty codepoint segment, or has more than one "."-separated suffix.
MalformedNamesRejected ==
    (npc # "input"
        /\ (nx = <<>> \/ HasEmptySegment(CodepointPart(nx)) \/ MoreThanOneSuffix(nx)))
    => ~ny.ok

\* C11 amended: normalize fails for every input that is empty or has an
\* empty codepoint segment; an input with more than one "."-separated
\* suffix and no empty codepoint segment is accepted.
EmptySegmentsRejected ==
    npc # "input" =>
        /\ (nx = <<>> \/ HasEmptySegment(CodepointPart(nx))) => ~ny.ok
        /\ (MoreThanOneSuffix(nx) /\ ~HasEmptySegment(CodepointPart(nx))) => ny.ok

\* C11 witness: a name with two consecutive "_" has been rejected.
EmptySegmentsRejectedWitness ==
    /\ npc = "rejected"
    /\ nx = <<"u", "_", "_", "1">>

HexUpper == {"0", "1", "2", "3", "4", "5", "6", "7", "8", "9",
             "A", "B", "C", "D", "E", "F"}
HexLower == {"a", "b", "c", "d", "e", "f"}

\* A canonical segment: "u", then a non-empty string of upper-case
\* hexadecimal digits that does not start with "0".
CanonicalSegment(c) ==
    /\ Len(c) >= 2
    /\ c[1] = "u"
    /\ c[2] # "0"
    /\ \A i \in 2..Len(c) : c[i] \in HexUpper

\* A canonical name: every "_"-separated segment of its codepoint part is
\* canonical.
Canonical(v) ==
    LET codes == Split(CodepointPart(v), "_")
    IN  \A i \in 1..Len(codes) : CanonicalSegment(codes[i])

\* A raw segment that denotes a codepoint: an optional "u" or "U", then
\* hexadecimal digits of which at least one is not "0".
DenotesCodepoint(c) ==
    LET digits == IF Len(c) > 0 /\ c[1] \in {"u", "U"} THEN Tail(c) ELSE c
    IN  /\ \A i \in 1..Len(digits) : digits[i] \in HexUpper \cup HexLower
        /\ \E i \in 1..Len(digits) : digits[i] # "0"

\* C17 as stated: every name normalize returns is canonical, for every
\* accepted input.
ReturnedNamesCanonical ==
    npc \in {"once", "twice"} => Canonical(ny.value)

\* C17 amended: every name normalize returns for an input whose segments
\* each denote a codepoint is canonical; a segment that is only a prefix
\* and/or zeros is accepted too and comes back as a bare "u".
CodepointNamesCanonical ==
    LET codes == Split(CodepointPart(nx), "_")
    IN  npc # "input" =>
            /\ (\A i \in 1..Len(codes) : DenotesCodepoint(codes[i]))
                    => (ny.ok /\ Canonical(ny.value))
            /\ (nx \in {<<"u">>, <<"U">>, <<"0">>, <<"U", "0">>, <<"u", "0", "0">>})
                    => (ny.ok /\ ny.value = <<"u">>)

\* C17 witness: two segments, one with leading zeros and a lower-case
\* digit, have been normalised.
CodepointNamesCanonicalWitness ==
    /\ npc = "once"
    /\ nx = <<"0", "f", "_", "1">>
    /\ ny.value = <<"u", "F", "_", "u", "1">>

(***************************************************************************)
(* The asset scan, run twice on the same directory entries enumerated in   *)
(* two orders.                                                             *)
(***************************************************************************)
u1 == <<"u", "1">>

\* An asset file "<raw> <size>.png" holding two bytes.
Asset(raw, size, d) ==
    [stem |-> asset_file_name(raw, size), is_file |-> TRUE, data |-> <<d, size>>]

\* A sub-directory and a file that is no asset.
Directory(stem) == [stem |-> stem, is_file |-> FALSE, data |-> <<>>]
OtherFile(stem) == [stem |-> stem, is_file |-> TRUE, data |-> <<0>>]

CompleteSet(raw, d) ==
    [i \in 1..Len(ASSET_SIZES) |-> Asset(raw, ASSET_SIZES[i], d)]

\* The directories scanned, each in one enumeration order.
BaseListings == {
    \* one complete glyph
    CompleteSet(u1, 1),
    \* a second file that normalises to the same name and size
    CompleteSet(u1, 1) \o <<Asset(<<"1">>, 20, 2)>>,
    \* size 160 missing, a sub-directory, a file that is no asset
    SubSeq(CompleteSet(u1, 1), 1, 8)
        \o <<Directory(<<"o", "l", "d">>), OtherFile(<<"n", "o", "t", "e", "s">>)>>,
    \* a size outside the list
    CompleteSet(u1, 1) \o <<Asset(u1, 7, 3)>>,
    \* a name with an empty codepoint segment
    CompleteSet(u1, 1) \o <<Asset(<<"u", "_", "_", "1">>, 20, 4)>>,
    \* a complete glyph and three sizes of another
    CompleteSet(u1, 1) \o SubSeq(CompleteSet(<<"U", "2">>, 5), 1, 3),
    \* an empty directory
    <<>> }

Rotate(s, k) == [i \in 1..Len(s) |-> s[((i + k - 1) % Len(s)) + 1]]

Reverse(s) == [i \in 1..Len(s) |-> s[Len(s) + 1 - i]]

Min(a, b) == IF a < b THEN a ELSE b

\* Enumeration orders of one directory.
Orders(base) ==
    IF base = <<>> THEN {<<>>}
    ELSE LET rot == {Rotate(base, k) : k \in 0..Min(MaxShift, Len(base) - 1)}
         IN  rot \cup {Reverse(r) : r \in rot}

Listing == IF scan = 1 THEN listing1 ELSE listing2

\* The outcome of the scan that finished last.
LastResult == IF scan = 1 THEN result1 ELSE result2

ScanFinished == bpc \in {"between", "done"}

InitBuild ==
    /\ \E base \in BaseListings :
          /\ listing1 \in Orders(base)
          /\ listing2 \in Orders(base)
    /\ scan = 1
    /\ idx = 1
    /\ info = <<>>
    /\ ignored_paths = <<>>
    /\ bpc = "scan"
    /\ result1 = BuildRaised
    /\ result2 = BuildRaised
    /\ NormIdle
    /\ InjectIdle
    /\ TaskIdle
    /\ RegIdle

Finish(r) ==
    /\ bpc' = IF scan = 1 THEN "between" ELSE "done"
    /\ result1' = IF scan = 1 THEN r ELSE result1
    /\ result2' = IF scan = 2 THEN r ELSE result2

\* One iteration of `for asset_path in assets_dir.iterdir()`.
ScanEntry ==
    /\ bpc = "scan"
    /\ idx <= Len(Listing)
    /\ LET st == ScanStep(ScanState(info, ignored_paths, FALSE), Listing[idx]) IN
          /\ info' = st.info
          /\ ignored_paths' = st.ignored
          /\ IF st.raised
             THEN /\ Finish(BuildRaised)
                  /\ idx' = idx
             ELSE /\ idx' = idx + 1
                  /\ UNCHANGED <<bpc, result1, result2>>
    /\ UNCHANGED <<listing1, listing2, scan>>
    /\ UNCHANGED <<normVars, injectVars, taskVars, regVars>>

\* The filter loop of lines 75-86 and the return.
FilterAssets ==
    /\ bpc = "scan"
    /\ idx > Len(Listing)
    /\ Finish(BuildReturn(ScanState(info, ignored_paths, FALSE)))
    /\ UNCHANGED <<listing1, listing2, scan, idx, info, ignored_paths>>
    /\ UNCHANGED <<normVars, injectVars, taskVars, regVars>>

\* assets_info is called again, the directory enumerates in the second order.
SecondScan ==
    /\ bpc = "between"
    /\ scan' = 2
    /\ idx' = 1
    /\ info' = <<>>
    /\ ignored_paths' = <<>>
    /\ bpc' = "scan"
    /\ UNCHANGED <<listing1, listing2, result1, result2>>
    /\ UNCHANGED <<normVars, injectVars, taskVars, regVars>>

NextBuild == ScanEntry \/ FilterAssets \/ SecondScan

SpecBuild == InitBuild /\ [][NextBuild]_vars

\* The entries whose raw name reformat_emoji_name rejects.
BadName(e) ==
    /\ e.is_file
    /\ LET parts == Split(e.stem, " ") IN
          /\ Len(parts) = 2
          /\ IntParses(parts[2])
          /\ ~reformat_emoji_name(parts[1]).ok

\* C5: a file whose raw name fails normalisation never aborts the batch:
\* the scan returns and reports the file as one (path, reason) pair.
BadNamesAreIgnored ==
    ScanFinished =>
        /\ ~LastResult.raised
        /\ \A i \in 1..Len(Listing) :
              BadName(Listing[i]) =>
                 Cardinality({k \in 1..Len(LastResult.ignored) :
                                 LastResult.ignored[k].path = Listing[i].stem}) = 1

\* C6: every glyph of the returned AssetSet maps exactly the fixed size
\* list, and a glyph accumulated with other sizes is absent from it, each of
\* its accumulated paths being ignored as "has missing/invalid sizes".
AssetSetComplete ==
    (ScanFinished /\ ~LastResult.raised) =>
        /\ \A i \in 1..Len(LastResult.assets) :
              /\ Sizes(LastResult.assets[i].assets) = Range(ASSET_SIZES)
              /\ Len(LastResult.assets[i].assets) = Len(ASSET_SIZES)
        /\ \A k \in 1..Len(info) :
              Sizes(info[k].assets) # Range(ASSET_SIZES) =>
                 /\ info[k].name \notin Names(LastResult.assets)
                 /\ \A j \in 1..Len(info[k].assets) :
                       Ignore(info[k].assets[j].path, "has missing/invalid sizes")
                          \in Range(LastResult.ignored)

\* C6 witness: a scan returned a complete glyph and left out one that has
\* only three sizes.
AssetSetCompleteWitness ==
    /\ ScanFinished
    /\ ~LastResult.raised
    /\ Names(LastResult.assets) = {u1}
    /\ \E k \in 1..Len(info) :
          /\ info[k].name = <<"u", "2">>
          /\ Len(info[k].assets) = 3

\* The (name, size) an entry is accumulated under, <<>> when it is not.
Key(e) ==
    IF ~e.is_file THEN <<>>
    ELSE LET parts == Split(e.stem, " ") IN
         IF Len(parts) # 2 \/ ~IntParses(parts[Len(parts)]) THEN <<>>
         ELSE IF ~reformat_emoji_name(parts[1]).ok THEN <<>>
         ELSE <<reformat_emoji_name(parts[1]).value, IntValue(parts[2])>>

NoDuplicateKeys(listing) ==
    \A i, j \in 1..Len(listing) :
        (i # j /\ Key(listing[i]) # <<>>) => Key(listing[i]) # Key(listing[j])

SameOutcome ==
    /\ result1.raised = result2.raised
    /\ AsMap(result1.assets) = AsMap(result2.assets)

\* C7 as stated: any two enumeration orders of the same entries, duplicates
\* of a (name, size) included, yield equal AssetSets.
OrderIndependent ==
    bpc = "done" => SameOutcome

\* C7 amended: when no two entries normalise to the same name and size, any
\* two enumeration orders have the same outcome (both raise, or both return
\* equal AssetSets).
OrderIndependentWithoutDuplicates ==
    (bpc = "done" /\ NoDuplicateKeys(listing1)) => SameOutcome

\* C7 witness: two different orders of a directory without duplicates both
\* returned the complete glyph and ignored the three leftover paths.
OrderIndependentWitness ==
    /\ bpc = "done"
    /\ listing1 # listing2
    /\ listing1[1] # listing2[1]
    /\ NoDuplicateKeys(listing1)
    /\ ~result1.raised
    /\ Names(result1.assets) = {u1}
    /\ Len(result2.ignored) = 3

\* C15: the scan fails whenever the complete AssetSet is empty; it never
\* returns an empty AssetSet.
EmptyAssetSetFails ==
    ScanFinished => (LastResult.raised \/ LastResult.assets # <<>>)

\* The positions of the listing enumerated first and last among those
\* accumulated under the same (name, size) as position i.
SameKey(i) == {j \in 1..Len(Listing) : Key(Listing[j]) = Key(Listing[i])}
FirstOfKey(i) == CHOOSE j \in SameKey(i) : \A k \in SameKey(i) : j <= k
LastOfKey(i) == CHOOSE j \in SameKey(i) : \A k \in SameKey(i) : j >= k

IgnoredPaths(r) == {r.ignored[k].path : k \in 1..Len(r.ignored)}

\* C18 as stated: of several entries with one (name, size) the AssetSet
\* maps that (name, size) to the entry enumerated last, and none of them is
\* in the ignored list.
LastWriteWins ==
    (ScanFinished /\ ~LastResult.raised) =>
        \A i \in 1..Len(Listing) :
            (Key(Listing[i]) # <<>> /\ Cardinality(SameKey(i)) > 1
                /\ Key(Listing[i])[1] \in Names(LastResult.assets)) =>
                /\ <<Key(Listing[i])[1], Key(Listing[i])[2],
                      Listing[LastOfKey(i)].stem>> \in AsMap(LastResult.assets)
                /\ \A j \in SameKey(i) :
                      Listing[j].stem \notin IgnoredPaths(LastResult)

\* C18 amended: of several entries with one (name, size) the AssetSet maps
\* that (name, size) to the entry enumerated first, silently: none of them
\* is in the ignored list.
FirstWriteWins ==
    (ScanFinished /\ ~LastResult.raised) =>
        \A i \in 1..Len(Listing) :
            (Key(Listing[i]) # <<>> /\ Cardinality(SameKey(i)) > 1
                /\ Key(Listing[i])[1] \in Names(LastResult.assets)) =>
                /\ <<Key(Listing[i])[1], Key(Listing[i])[2],
                      Listing[FirstOfKey(i)].stem>> \in AsMap(LastResult.assets)
                /\ \A j \in SameKey(i) :
                      Listing[j].stem \notin IgnoredPaths(LastResult)

\* C18 witness: a scan of a directory where "1 20.png" comes before
\* "u1 20.png" returned glyph u1 with the path of "1 20.png" for size 20.
FirstWriteWinsWitness ==
    /\ ScanFinished
    /\ ~LastResult.raised
    /\ \E i, j \in 1..Len(Listing) :
          /\ i < j
          /\ Listing[i].stem = asset_file_name(<<"1">>, 20)
          /\ Listing[j].stem = asset_file_name(u1, 20)
    /\ <<u1, 20, asset_file_name(<<"1">>, 20)>> \in AsMap(LastResult.assets)

(***************************************************************************)
(* One call insert_all_emojis(assets_dir, BASE_1, USR_TTX_1).              *)
(***************************************************************************)
u2 == <<"u", "2">>
u3 == <<"u", "3">>

TreeGlyphs == <<u1, u2, u3>>

\* The glyph element of `name` in strike i of a decompiled font.
Glyph(name, i) ==
    [name |-> name, has_hexdata |-> TRUE, hexdata |-> BytesHex(<<0, i>>)]

FullTree(n) ==
    [i \in 1..n |-> [g \in 1..Len(TreeGlyphs) |-> Glyph(TreeGlyphs[g], i)]]

\* A tree whose strike k has no glyph element `name`.
TreeWithout(n, k, name) ==
    LET Keep(e) == e.name # name IN
    [FullTree(n) EXCEPT ![k] = SelectSeq(@, Keep)]

\* A tree whose strike k has a glyph element `name` without hexdata child.
TreeNoHexdata(n, k, name) ==
    [FullTree(n) EXCEPT ![k] =
        [j \in 1..Len(@) |-> IF @[j].name = name
                             THEN [@[j] EXCEPT !.has_hexdata = FALSE]
                             ELSE @[j]]]

Trees ==
    {FullTree(n) : n \in 0..MaxStrikes}
    \cup {TreeWithout(Len(ASSET_SIZES), k, u1) : k \in {1, 5, 9}}
    \cup {TreeNoHexdata(Len(ASSET_SIZES), 2, u2)}

\* What may be found at the path of a base tree.
BaseFiles == {TtxFile(t) : t \in Trees} \cup {Absent, Garbage}

\* The asset directories given to the injector.
AssetDirs == {
    CompleteSet(u1, 1),
    CompleteSet(u1, 1) \o CompleteSet(<<"U", "2">>, 2),
    CompleteSet(u1, 1) \o SubSeq(CompleteSet(<<"U", "2">>, 2), 1, 3),
    CompleteSet(<<"u", "9">>, 3),
    CompleteSet(u1, 1) \o <<Asset(<<"u", "_", "_", "1">>, 20, 4)>>,
    <<>> }

InitInject ==
    /\ \E f \in BaseFiles : fs = [p \in Paths |-> IF p = BASE_1 THEN f ELSE Absent]
    /\ fs0 = fs
    /\ assets_dir \in AssetDirs
    /\ strikes = <<>>
    /\ assets = <<>>
    /\ ignored = <<>>
    /\ successful = <<>>
    /\ ipos = 1
    /\ ipc = "parse"
    /\ NormIdle
    /\ BuildIdle
    /\ TaskIdle
    /\ RegIdle

\* tree = ET.parse(ttx_in); strikes = root.findall("./sbix/strike").
\* findall returns a list, so the `is None` test of line 111 never holds.
ParseTree ==
    /\ ipc = "parse"
    /\ IF fs[BASE_1].kind = "ttx"
       THEN /\ strikes' = fs[BASE_1].strikes
            /\ ipc' = "assets"
       ELSE /\ strikes' = strikes
            /\ ipc' = "raised"
    /\ UNCHANGED <<fs, fs0, assets_dir, assets, ignored, successful, ipos>>
    /\ UNCHANGED <<normVars, buildVars, taskVars, regVars>>

\* assets, asset_ignores = assets_info(assets_dir); ignored.extend(...)
LoadAssets ==
    /\ ipc = "assets"
    /\ LET a == assets_info(assets_dir) IN
          IF a.raised
          THEN /\ ipc' = "raised"
               /\ UNCHANGED <<assets, ignored>>
          ELSE /\ ipc' = "insert"
               /\ assets' = a.assets
               /\ ignored' = ignored \o a.ignored
    /\ UNCHANGED <<fs, fs0, assets_dir, strikes, successful, ipos>>
    /\ UNCHANGED <<normVars, buildVars, taskVars, regVars>>

\* One iteration of the loop of lines 118-119.
InsertEmoji ==
    /\ ipc = "insert"
    /\ ipos <= Len(assets)
    /\ LET r == insert_emoji(strikes, assets[ipos].name, assets[ipos].assets, assets_dir) IN
          /\ strikes' = r.strikes
          /\ IF r.raised
             THEN /\ ipc' = "raised"
                  /\ ipos' = ipos
             ELSE /\ ipc' = ipc
                  /\ ipos' = ipos + 1
    /\ UNCHANGED <<fs, fs0, assets_dir, assets, ignored, successful>>
    /\ UNCHANGED <<normVars, buildVars, taskVars, regVars>>

\* tree.write(ttx_out); return successful, ignored
WriteTree ==
    /\ ipc = "insert"
    /\ ipos > Len(assets)
    /\ fs' = [fs EXCEPT ![USR_TTX_1] = TtxFile(strikes)]
    /\ ipc' = "returned"
    /\ UNCHANGED <<fs0, assets_dir, strikes, assets, ignored, successful, ipos>>
    /\ UNCHANGED <<normVars, buildVars, taskVars, regVars>>

NextInject == ParseTree \/ LoadAssets \/ InsertEmoji \/ WriteTree

SpecInject == InitInject /\ [][NextInject]_vars

\* Strikes sk have the glyph elements of strikes orig, and the payload of
\* every element whose name is not in the AssetSet is the original one.
SameButNamed(sk, orig) ==
    /\ Len(sk) = Len(orig)
    /\ \A i \in 1..Len(orig) :
          /\ Len(sk[i]) = Len(orig[i])
          /\ \A j \in 1..Len(orig[i]) :
                /\ sk[i][j].name = orig[i][j].name
                /\ sk[i][j].has_hexdata = orig[i][j].has_hexdata
                /\ sk[i][j].name \notin Names(assets) =>
                      sk[i][j].hexdata = orig[i][j].hexdata

\* C8: injection is non-destructive: in the tree in memory and in the tree
\* written, no glyph entry is added or removed and every entry whose name is
\* not in the AssetSet keeps its payload.
InjectNonDestructive ==
    /\ ipc \in {"assets", "insert", "returned", "raised"} /\ fs0[BASE_1].kind = "ttx" =>
          SameButNamed(strikes, fs0[BASE_1].strikes)
    /\ fs[USR_TTX_1].kind = "ttx" =>
          SameButNamed(fs[USR_TTX_1].strikes, fs0[BASE_1].strikes)

\* C8 witness: an injection of the glyph u1 alone returned; the written tree
\* has the asset's payload for u1 in strike 1.
InjectNonDestructiveWitness ==
    /\ ipc = "returned"
    /\ Names(assets) = {u1}
    /\ Len(fs[USR_TTX_1].strikes) = Len(ASSET_SIZES)
    /\ fs[USR_TTX_1].strikes[1][1].name = u1
    /\ fs[USR_TTX_1].strikes[1][1].hexdata = BytesHex(<<1, 20>>)
    /\ fs[USR_TTX_1].strikes[1][2].hexdata = fs0[BASE_1].strikes[1][2].hexdata

\* C12: injection fails whenever the font tree has no sbix strike, for every
\* AssetSet: it does not return and writes no output tree.
NoStrikesFails ==
    (fs0[BASE_1].kind = "ttx" /\ fs0[BASE_1].strikes = <<>>) =>
        (ipc # "returned" /\ fs[USR_TTX_1] = Absent)

\* A strike without a glyph entry of that name that has a payload field.
Missing(strike, name) ==
    ~\E j \in 1..Len(strike) : strike[j].name = name /\ strike[j].has_hexdata

\* The strikes of the tree read that are paired with a size.
PairedStrikes == 1..Min(Len(fs0[BASE_1].strikes), Len(ASSET_SIZES))

\* The glyph at position k of the AssetSet has no entry in a paired strike.
Mismatched(k) ==
    \E i \in PairedStrikes : Missing(fs0[BASE_1].strikes[i], assets[k].name)

\* C13: when a glyph of the AssetSet has no entry with a payload field in a
\* strike paired with a size, the injection does not get past that glyph,
\* does not return, and the output tree file is not written.
MismatchFails ==
    (fs0[BASE_1].kind = "ttx" /\ \E k \in 1..Len(assets) : Mismatched(k)) =>
        /\ ipc # "returned"
        /\ fs[USR_TTX_1] = fs0[USR_TTX_1]
        /\ \A k \in 1..Len(assets) : Mismatched(k) => ipos <= k

\* C13 witness: an injection raised at strike 5 after it had replaced the
\* payload of strike 1 in memory; no output tree exists.
MismatchFailsWitness ==
    /\ ipc = "raised"
    /\ fs0[BASE_1].kind = "ttx"
    /\ Names(assets) = {u1}
    /\ Missing(fs0[BASE_1].strikes[5], u1)
    /\ strikes[1][1].hexdata = BytesHex(<<1, 20>>)
    /\ strikes[1][1].hexdata # fs0[BASE_1].strikes[1][1].hexdata
    /\ fs[USR_TTX_1] = Absent

\* C14: after a successful injection the returned list holds exactly the
\* glyph names of the AssetSet, each once, in patch order.
ReturnsPatchedNames ==
    ipc = "returned" =>
        successful = [k \in 1..Len(assets) |-> assets[k].name]

\* The bytes of the asset the AssetSet holds for a glyph name and a size.
AssetBytes(name, size) ==
    LET p == CHOOSE q \in {assets_dir[n].stem : n \in 1..Len(assets_dir)} :
                 <<name, size, q>> \in AsMap(assets)
    IN  assets_dir[CHOOSE n \in 1..Len(assets_dir) : assets_dir[n].stem = p].data

\* C19 as stated: after a successful injection, in every strike of the
\* written tree the payload of every AssetSet glyph is the hexadecimal
\* encoding of its asset for the size at the strike's position and no strike
\* is left with the old payload, whatever the number of strikes.
AllStrikesPatched ==
    ipc = "returned" =>
        \A k \in 1..Len(assets) : \A i \in 1..Len(fs[USR_TTX_1].strikes) :
            /\ ~Missing(fs[USR_TTX_1].strikes[i], assets[k].name)
            /\ \A j \in 1..Len(fs[USR_TTX_1].strikes[i]) :
                  LET e == fs[USR_TTX_1].strikes[i][j] IN
                  (e.name = assets[k].name /\ e.has_hexdata) =>
                      /\ e.hexdata # fs0[BASE_1].strikes[i][j].hexdata
                      /\ i <= Len(ASSET_SIZES) =>
                            e.hexdata = BytesHex(AssetBytes(e.name, ASSET_SIZES[i]))

\* C19 amended: after a successful injection, in every strike of the
\* written tree that is paired with a size (the first nine) the payload of
\* every AssetSet glyph is the hexadecimal encoding of its asset for the
\* size at the strike's position; a strike beyond the ninth keeps the old
\* payload.
PairedStrikesPatched ==
    ipc = "returned" =>
        \A k \in 1..Len(assets) : \A i \in 1..Len(fs[USR_TTX_1].strikes) :
            /\ i <= Len(ASSET_SIZES) => ~Missing(fs[USR_TTX_1].strikes[i], assets[k].name)
            /\ \A j \in 1..Len(fs[USR_TTX_1].strikes[i]) :
                  LET e == fs[USR_TTX_1].strikes[i][j] IN
                  (e.name = assets[k].name /\ e.has_hexdata) =>
                      IF i <= Len(ASSET_SIZES)
                      THEN e.hexdata = BytesHex(AssetBytes(e.name, ASSET_SIZES[i]))
                      ELSE e.hexdata = fs0[BASE_1].strikes[i][j].hexdata

\* C19 witness: an injection of u1 into a tree of ten strikes returned;
\* strike 9 holds the payload of the 160 pixel asset, strike 10 the old one.
PairedStrikesPatchedWitness ==
    /\ ipc = "returned"
    /\ Names(assets) = {u1}
    /\ Len(fs[USR_TTX_1].strikes) = Len(ASSET_SIZES) + 1
    /\ fs[USR_TTX_1].strikes[9][1].name = u1
    /\ fs[USR_TTX_1].strikes[9][1].hexdata = <<"0", "1", "a", "0">>
    /\ fs[USR_TTX_1].strikes[10][1].hexdata = fs0[BASE_1].strikes[10][1].hexdata

(***************************************************************************)
(* The main thread's calls on progress tasks, and the two threads of each  *)
(* task.  A call is [op, task]; run() is start() followed by join().       *)
(***************************************************************************)
Call == program[ip]

InProgram == ip \in 1..Len(program)

Partial == [kind |-> "partial"]

FileExists(path) == fs[path].kind # "absent"

Changed(t, u) == IF t.total # u.total \/ t.completed # u.completed THEN 1 ELSE 0

\* run(): self.start(), then join() follows.
RunStart ==
    /\ InProgram
    /\ phase = "call"
    /\ Call.op = "run"
    /\ tasks' = [tasks EXCEPT ![Call.task] = start(@)]
    /\ phase' = "join_target"
    /\ UNCHANGED <<program, ip, joins, transitions, out_size, runs>>
    /\ UNCHANGED <<normVars, buildVars, injectVars, regVars>>

\* join(): self._target_thread.join(); self._progress_active = False
JoinTarget ==
    /\ InProgram
    /\ \/ phase = "join_target"
       \/ phase = "call" /\ Call.op = "join"
    /\ target_thread_joined(tasks[Call.task].target)
    /\ tasks' = [tasks EXCEPT ![Call.task].progress_active = FALSE]
    /\ phase' = "join_progress"
    /\ UNCHANGED <<program, ip, joins, transitions, out_size, runs>>
    /\ UNCHANGED <<normVars, buildVars, injectVars, regVars>>

\* join(): self._progress_thread.join(); self._set_completed(); return
JoinProgress ==
    /\ InProgram
    /\ phase = "join_progress"
    /\ progress_thread_joined(tasks[Call.task].observer)
    /\ tasks' = [tasks EXCEPT ![Call.task] = set_completed(@)]
    /\ transitions' = [transitions EXCEPT ![Call.task] =
                          @ + Changed(tasks[Call.task], tasks'[Call.task])]
    /\ joins' = [joins EXCEPT ![Call.task] = @ + 1]
    /\ ip' = ip + 1
    /\ phase' = "call"
    /\ UNCHANGED <<program, out_size, runs>>
    /\ UNCHANGED <<normVars, buildVars, injectVars, regVars>>

\* _progress_runner: `if not self.progress_runner: return`
ObserverEnter ==
    \E i \in DOMAIN tasks :
        /\ tasks[i].observer = "entry"
        /\ tasks' = [tasks EXCEPT ![i].observer =
                        IF tasks[i].progress_runner THEN "check" ELSE "done"]
        /\ UNCHANGED <<program, ip, phase, joins, transitions, out_size, runs>>
        /\ UNCHANGED <<normVars, buildVars, injectVars, regVars>>

\* _progress_runner: `while self._progress_active` found true
ObserverCheck ==
    \E i \in DOMAIN tasks :
        /\ tasks[i].observer = "check"
        /\ tasks[i].progress_active
        /\ tasks' = [tasks EXCEPT ![i].observer = "poll"]
        /\ UNCHANGED <<program, ip, phase, joins, transitions, out_size, runs>>
        /\ UNCHANGED <<normVars, buildVars, injectVars, regVars>>

\* _progress_runner: self.progress_loop(); time.sleep(0.1)
ObserverPoll ==
    \E i \in DOMAIN tasks :
        /\ tasks[i].observer = "poll"
        /\ tasks' = [tasks EXCEPT ![i] =
                        [progress_loop(@, FileExists(@.output_file), out_size)
                            EXCEPT !.observer = "check"]]
        /\ UNCHANGED <<program, ip, phase, joins, transitions, out_size, runs>>
        /\ UNCHANGED <<normVars, buildVars, injectVars, regVars>>

\* _progress_runner: the loop ends; self._set_completed()
ObserverExit ==
    \E i \in DOMAIN tasks :
        /\ tasks[i].observer = "check"
        /\ ~tasks[i].progress_active
        /\ tasks' = [tasks EXCEPT ![i] = [set_completed(@) EXCEPT !.observer = "done"]]
        /\ transitions' = [transitions EXCEPT ![i] = @ + Changed(tasks[i], tasks'[i])]
        /\ UNCHANGED <<program, ip, phase, joins, out_size, runs>>
        /\ UNCHANGED <<normVars, buildVars, injectVars, regVars>>

(***************************************************************************)
(* One task of each class, run and then joined again some times, as        *)
(* font() and generate_base_files() do.                                    *)
(***************************************************************************)
TaskPrograms ==
    {<<[op |-> "run", task |-> "task"]>> \o [k \in 1..n |-> [op |-> "join", task |-> "task"]] :
        n \in 0..MaxJoins}

InitTask ==
    /\ \E t \in {ProgressFileTask(GENERATED_FONT, TTC_SIZE),
                 ProgressSimpleTask, ProgressCompletedTask} :
          tasks = [i \in {"task"} |-> t]
    /\ program \in TaskPrograms
    /\ ip = 1
    /\ phase = "call"
    /\ joins = [i \in {"task"} |-> 0]
    /\ transitions = [i \in {"task"} |-> 0]
    /\ runs = 1
    \* the tracked file may be left from an earlier run
    /\ \E f \in {Absent, Partial} :
          fs = [p \in Paths |-> IF p = GENERATED_FONT THEN f ELSE Absent]
    /\ out_size \in 0..MaxSize
    /\ (fs[GENERATED_FONT].kind = "absent" => out_size = 0)
    /\ fs0 = fs
    /\ assets_dir = <<>>
    /\ strikes = <<>>
    /\ assets = <<>>
    /\ ignored = <<>>
    /\ successful = <<>>
    /\ ipos = 0
    /\ ipc = "off"
    /\ NormIdle
    /\ BuildIdle
    /\ RegIdle

\* The target of a file task creates its output file or appends to it.
TargetWrite ==
    \E i \in DOMAIN tasks :
        /\ tasks[i].target = "running"
        /\ tasks[i].kind = "file"
        /\ IF FileExists(tasks[i].output_file)
           THEN /\ out_size < MaxSize
                /\ out_size' = out_size + 1
                /\ fs' = fs
           ELSE /\ out_size' = 0
                /\ fs' = [fs EXCEPT ![tasks[i].output_file] = Partial]
        /\ UNCHANGED <<tasks, program, ip, phase, joins, transitions, runs>>
        /\ UNCHANGED <<fs0, assets_dir, injectLocal>>
        /\ UNCHANGED <<normVars, buildVars, regVars>>

\* The target returns.
TargetReturn ==
    \E i \in DOMAIN tasks :
        /\ tasks[i].target = "running"
        /\ tasks' = [tasks EXCEPT ![i].target = "returned"]
        /\ UNCHANGED <<program, ip, phase, joins, transitions, out_size, runs>>
        /\ UNCHANGED <<normVars, buildVars, injectVars, regVars>>

\* The target raises; the exception ends its thread.
TargetRaise ==
    \E i \in DOMAIN tasks :
        /\ tasks[i].target = "running"
        /\ tasks[i].kind # "completed"      \* `lambda: None` does not raise
        /\ tasks' = [tasks EXCEPT ![i].target = "raised"]
        /\ UNCHANGED <<program, ip, phase, joins, transitions, out_size, runs>>
        /\ UNCHANGED <<normVars, buildVars, injectVars, regVars>>

NextTask ==
    \/ RunStart \/ JoinTarget \/ JoinProgress
    \/ ObserverEnter \/ ObserverCheck \/ ObserverPoll \/ ObserverExit
    \/ TargetWrite \/ TargetReturn \/ TargetRaise

SpecTask == InitTask /\ [][NextTask]_vars

\* C1: once join() has returned, the task's completed amount equals its
\* total (1 and 1 for an indeterminate task), whatever was polled last.
TerminalConvergence ==
    \A i \in DOMAIN tasks :
        joins[i] >= 1 =>
            /\ tasks[i].total # None
            /\ tasks[i].completed = tasks[i].total
            /\ tasks[i].kind = "simple" => (tasks[i].total = 1 /\ tasks[i].completed = 1)

\* C1 witness: join() returned for a file task whose file ended above the
\* expected size and was last polled below it.
TerminalConvergenceWitness ==
    /\ joins["task"] = 1
    /\ tasks["task"].kind = "file"
    /\ out_size > TTC_SIZE
    /\ tasks["task"].completed = 1
    /\ tasks["task"].total = 1

\* C2: the forced completions of the observer thread, of join() and of
\* repeated join() calls change a task's total/completed at most once in
\* all, and nothing changes them after the first join() has returned.
CompletedOnce ==
    [][\A i \in DOMAIN tasks :
          /\ transitions'[i] <= 1
          /\ joins[i] >= 1 =>
                /\ tasks'[i].total = tasks[i].total
                /\ tasks'[i].completed = tasks[i].completed]_vars

\* C2 witness: a file task was run and joined again; only the observer's
\* forced completion changed it.
CompletedOnceWitness ==
    /\ joins["task"] = 2
    /\ tasks["task"].kind = "file"
    /\ transitions["task"] = 1
    /\ tasks["task"].total # TTC_SIZE

(***************************************************************************)
(* cli/create.py: the `font` command, run up to MaxRuns times.             *)
(***************************************************************************)
FontTaskNames == {"base", "insert_1", "insert_2", "compile_1", "compile_2", "ttc"}

\* The tasks font() creates, as constructed.
FontTasks ==
    [i \in FontTaskNames |->
        CASE i = "base" -> ProgressCompletedTask
          [] i = "ttc" -> ProgressFileTask(GENERATED_FONT, TTC_SIZE)
          [] OTHER -> ProgressSimpleTask]

\* The calls of font(), lines 126-183.
FontProgram == <<
    [op |-> "base_files", task |-> ""],
    [op |-> "run", task |-> "base"],
    [op |-> "run", task |-> "insert_1"],
    [op |-> "run", task |-> "insert_2"],
    [op |-> "join", task |-> "insert_1"],
    [op |-> "join", task |-> "insert_2"],
    [op |-> "run", task |-> "compile_1"],
    [op |-> "run", task |-> "compile_2"],
    [op |-> "run", task |-> "ttc"],
    [op |-> "cleanup", task |-> ""] >>

InsertInput(i) == IF i = "insert_1" THEN BASE_1 ELSE BASE_2

\* A wrong output path: the base tree is rewritten in place.
InsertOutputInPlace(i) == InsertInput(i)

\* ttx_usr_1, ttx_usr_2
InsertOutput(i) == IF i = "insert_1" THEN USR_TTX_1 ELSE USR_TTX_2

\* generate_ttf_from_ttx(file_name): <file_name>.ttx -> <file_name>.ttf
CompileInput(i) == IF i = "compile_1" THEN USR_TTX_1 ELSE USR_TTX_2
CompileOutput(i) == IF i = "compile_1" THEN USR_TTF_1 ELSE USR_TTF_2

\* The base trees a run may find.
FontBaseFiles ==
    {TtxFile(FullTree(Len(ASSET_SIZES))),
     TtxFile(TreeWithout(Len(ASSET_SIZES), 5, u1)),
     Absent}

Zero(S) == [i \in S |-> 0]

InitFont ==
    /\ tasks = FontTasks
    /\ program = FontProgram
    /\ ip = 1
    /\ phase = "call"
    /\ joins = Zero(FontTaskNames)
    /\ transitions = Zero(FontTaskNames)
    /\ runs = 1
    /\ \E b1, b2 \in FontBaseFiles :
          fs = [p \in Paths |-> IF p = BASE_1 THEN b1
                                ELSE IF p = BASE_2 THEN b2
                                ELSE Absent]
    /\ out_size = 0
    /\ fs0 = fs
    /\ assets_dir \in AssetDirs
    /\ strikes = <<>>
    /\ assets = <<>>
    /\ ignored = <<>>
    /\ successful = <<>>
    /\ ipos = 0
    /\ ipc = "off"
    /\ NormIdle
    /\ BuildIdle
    /\ RegIdle

\* base_files_exist(): both base trees are there.
base_files_exist(files) ==
    files[BASE_1].kind # "absent" /\ files[BASE_2].kind # "absent"

\* generate_base_files(force=force), as its effect on the files once both
\* decompile tasks have been joined: the intermediate files are removed,
\* and unless the call returned early both base trees are the decompiled
\* system font.
generate_base_files(files, force) ==
    [p \in Paths |->
        IF p \in CleanupPaths THEN Absent
        ELSE IF p \in {BASE_1, BASE_2} /\ ~(~force /\ base_files_exist(files))
        THEN TtxFile(FullTree(Len(ASSET_SIZES)))
        ELSE files[p]]

\* The argument of the call base_files(force=False) made by font().
FontForce == FALSE

\* The truth value of the name `base_files_exist` in the test of
\* create.py:99: a function object, true whatever the files are.
base_files_exist_object == TRUE

\* base_files(force=False), create.py:99-103: `base_files_exist` is the
\* function object, not a call, so the test is true whatever the files are
\* and the command prints its message and returns.
BaseFilesCommand ==
    /\ InProgram
    /\ phase = "call"
    /\ Call.op = "base_files"
    /\ IF ~FontForce /\ base_files_exist_object
       THEN fs' = fs
       ELSE fs' = generate_base_files(fs, FontForce)
    /\ ip' = ip + 1
    /\ UNCHANGED <<tasks, program, phase, joins, transitions, out_size, runs>>
    /\ UNCHANGED <<fs0, assets_dir, injectLocal>>
    /\ UNCHANGED <<normVars, buildVars, regVars>>

\* base_emoji_process_cleanup()
Cleanup ==
    /\ InProgram
    /\ phase = "call"
    /\ Call.op = "cleanup"
    /\ fs' = [p \in Paths |-> IF p \in CleanupPaths THEN Absent ELSE fs[p]]
    /\ ip' = ip + 1
    /\ UNCHANGED <<tasks, program, phase, joins, transitions, out_size, runs>>
    /\ UNCHANGED <<fs0, assets_dir, injectLocal>>
    /\ UNCHANGED <<normVars, buildVars, regVars>>

\* The command is run again (a new process, new task objects).
NewRun ==
    /\ ip = Len(program) + 1
    /\ runs < MaxRuns
    /\ runs' = runs + 1
    /\ tasks' = FontTasks
    /\ ip' = 1
    /\ joins' = Zero(FontTaskNames)
    /\ transitions' = Zero(FontTaskNames)
    /\ UNCHANGED <<program, phase, out_size>>
    /\ UNCHANGED <<normVars, buildVars, injectVars, regVars>>

\* The target of ProgressCompletedTask: partial(lambda: None).
TargetLambda ==
    \E i \in DOMAIN tasks :
        /\ tasks[i].target = "running"
        /\ tasks[i].kind = "completed"
        /\ tasks' = [tasks EXCEPT ![i].target = "returned"]
        /\ UNCHANGED <<program, ip, phase, joins, transitions, out_size, runs>>
        /\ UNCHANGED <<normVars, buildVars, injectVars, regVars>>

\* The targets of insert_1 (_insert_emoji_runner) and insert_2
\* (insert_all_emojis): an exception ends the thread, nothing is written.
TargetInsert ==
    \E i \in {"insert_1", "insert_2"} :
        /\ tasks[i].target = "running"
        /\ LET r == insert_all_emojis(fs[InsertInput(i)], assets_dir) IN
              IF r.raised
              THEN /\ tasks' = [tasks EXCEPT ![i].target = "raised"]
                   /\ fs' = fs
              ELSE /\ tasks' = [tasks EXCEPT ![i].target = "returned"]
                   /\ fs' = [fs EXCEPT ![InsertOutput(i)] = r.out]
        /\ UNCHANGED <<program, ip, phase, joins, transitions, out_size, runs>>
        /\ UNCHANGED <<fs0, assets_dir, injectLocal>>
        /\ UNCHANGED <<normVars, buildVars, regVars>>

\* The target generate_ttf_from_ttx: the font compiler compiles the user
\* tree, or fails (always so when the tree file is missing).
TargetCompile ==
    \E i \in {"compile_1", "compile_2"} :
        /\ tasks[i].target = "running"
        /\ \E ok \in BOOLEAN :
              IF ok /\ fs[CompileInput(i)].kind = "ttx"
              THEN /\ tasks' = [tasks EXCEPT ![i].target = "returned"]
                   /\ fs' = [fs EXCEPT ![CompileOutput(i)] =
                                [kind |-> "ttf", strikes |-> fs[CompileInput(i)].strikes]]
              ELSE /\ tasks' = [tasks EXCEPT ![i].target = "raised"]
                   /\ fs' = fs
        /\ UNCHANGED <<program, ip, phase, joins, transitions, out_size, runs>>
        /\ UNCHANGED <<fs0, assets_dir, injectLocal>>
        /\ UNCHANGED <<normVars, buildVars, regVars>>

MergeInputsExist == fs[USR_TTF_1].kind = "ttf" /\ fs[USR_TTF_2].kind = "ttf"

\* The target generate_ttc_from_ttf while it writes the container.
TargetMergeWrite ==
    /\ tasks["ttc"].target = "running"
    /\ MergeInputsExist
    /\ IF FileExists(GENERATED_FONT)
       THEN /\ out_size < MaxSize
            /\ out_size' = out_size + 1
            /\ fs' = [fs EXCEPT ![GENERATED_FONT] = Partial]
       ELSE /\ out_size' = 0
            /\ fs' = [fs EXCEPT ![GENERATED_FONT] = Partial]
    /\ UNCHANGED <<tasks, program, ip, phase, joins, transitions, runs>>
    /\ UNCHANGED <<fs0, assets_dir, injectLocal>>
    /\ UNCHANGED <<normVars, buildVars, regVars>>

\* The target generate_ttc_from_ttf ends: the container is complete, or
\* otf2otc fails for want of a sub-font.
TargetMergeEnd ==
    /\ tasks["ttc"].target = "running"
    /\ IF MergeInputsExist
       THEN /\ tasks' = [tasks EXCEPT !["ttc"].target = "returned"]
            /\ fs' = [fs EXCEPT ![GENERATED_FONT] =
                         [kind |-> "ttc",
                          fonts |-> <<fs[USR_TTF_1].strikes, fs[USR_TTF_2].strikes>>]]
       ELSE /\ tasks' = [tasks EXCEPT !["ttc"].target = "raised"]
            /\ fs' = fs
    /\ UNCHANGED <<program, ip, phase, joins, transitions, out_size, runs>>
    /\ UNCHANGED <<fs0, assets_dir, injectLocal>>
    /\ UNCHANGED <<normVars, buildVars, regVars>>

NextFont ==
    \/ BaseFilesCommand \/ RunStart \/ JoinTarget \/ JoinProgress \/ Cleanup \/ NewRun
    \/ ObserverEnter \/ ObserverCheck \/ ObserverPoll \/ ObserverExit
    \/ TargetLambda \/ TargetInsert \/ TargetCompile
    \/ TargetMergeWrite \/ TargetMergeEnd

SpecFont == InitFont /\ [][NextFont]_vars

Started(i) == tasks[i].target # "idle"

Finished(i) == tasks[i].target \in {"returned", "raised"}

\* C3: a recompilation starts only after the injection into both sub-font
\* trees has finished, and the container merge starts only after both
\* recompilations have finished.
StrictStepOrdering ==
    /\ (Started("compile_1") \/ Started("compile_2")) =>
          (Finished("insert_1") /\ Finished("insert_2"))
    /\ Started("ttc") => (Finished("compile_1") /\ Finished("compile_2"))

\* C3 witness: the merge is running after two injections and two
\* recompilations that returned.
StrictStepOrderingWitness ==
    /\ tasks["ttc"].target = "running"
    /\ \A i \in {"insert_1", "insert_2", "compile_1", "compile_2"} :
          tasks[i].target = "returned"

\* C4: a failed injection halts the run: no recompilation and no container
\* merge is started after it.
FailedInjectionHalts ==
    (tasks["insert_1"].target = "raised" \/ tasks["insert_2"].target = "raised") =>
        (~Started("compile_1") /\ ~Started("compile_2") /\ ~Started("ttc"))

\* C9: the base decompiled trees have the content they had before the
\* first run.
BaseTreesUntouched ==
    /\ fs[BASE_1] = fs0[BASE_1]
    /\ fs[BASE_2] = fs0[BASE_2]

\* C9 witness: a second run has ended after cleanup, the font was generated
\* and the first base tree is there.
BaseTreesUntouchedWitness ==
    /\ runs = 2
    /\ ip = Len(program) + 1
    /\ fs[GENERATED_FONT].kind = "ttc"
    /\ fs[USR_TTX_1].kind = "absent"
    /\ fs[BASE_1].kind = "ttx"

\* C16: a font run first ensures that both base trees exist: when one of
\* them is missing at the start of the run, the decompile step has been
\* made and has completed, so both exist, before any injection starts.
BaseTreesEnsured ==
    (~base_files_exist(fs0) /\ (Started("insert_1") \/ Started("insert_2")))
        => base_files_exist(fs)

(***************************************************************************)
(* utils.py: _get_valid_emoji_names and valid_emoji_names, the registry    *)
(* of glyph names and its cache file valid_emoji_names.txt.  A process     *)
(* calls valid_emoji_names() any number of times; processes follow one     *)
(* another; `macmoji create base-files` may be run in between.             *)
(***************************************************************************)
\* Largest number of valid_emoji_names() calls made.
MaxLoads == 4

NewLine == "\n"

\* str.splitlines() on a text whose only line boundary is "\n": no line for
\* the empty text, no empty last line after a final "\n".
SplitLines(t) ==
    IF t = <<>> THEN <<>>
    ELSE LET parts == Split(t, NewLine) IN
         IF parts[Len(parts)] = <<>>
         THEN SubSeq(parts, 1, Len(parts) - 1)
         ELSE parts

RECURSIVE concat_names(_)
\* A mutation of the cache text: the names written one after the other
\* without separator.
concat_names(names) ==
    IF names = <<>> THEN <<>> ELSE names[1] \o concat_names(Tail(names))

\* "\n".join(names)
join_names(names) == Join(names, NewLine)

\* The cache file: absent, or a text (zero length when the text is empty).
NoCache == [kind |-> "absent"]
TextFile(t) == [kind |-> "text", text |-> t]

\* file_path.is_file() and file_path.stat().st_size > 0
cache_is_built(f) == f.kind = "text" /\ Len(f.text) > 0

\* A child element of GlyphOrder; the name is <<>> when the attribute is
\* missing or empty.
GlyphID(name) == [tag |-> "GlyphID", name |-> name]
OtherChild == [tag |-> "other", name |-> <<>>]

\* A decompiled font given by its GlyphOrder section alone.
OrderedTree(present, children) ==
    [kind |-> "ttx", strikes |-> <<>>, has_order |-> present, children |-> children]

\* root.find("GlyphOrder") of a parsed tree; a tree given by its strikes
\* lists the glyphs of its strikes.
GlyphOrder(file) ==
    IF "children" \in DOMAIN file
    THEN [present |-> file.has_order, children |-> file.children]
    ELSE [present |-> TRUE,
          children |-> [i \in 1..Len(TreeGlyphs) |-> GlyphID(TreeGlyphs[i])]]

RECURSIVE YieldNames(_, _)
\* The loop of lines 248-251 over glyphParent.iter("GlyphID"): the names
\* yielded, and whether a glyph without name ended it with ValueError.
YieldNames(children, acc) ==
    IF children = <<>> THEN [raised |-> FALSE, names |-> acc]
    ELSE IF children[1].tag # "GlyphID" THEN YieldNames(Tail(children), acc)
    ELSE IF children[1].name = <<>> THEN [raised |-> TRUE, names |-> acc]
    ELSE YieldNames(Tail(children), Append(acc, children[1].name))

\* _get_valid_emoji_names() consumed to its end, on the content of
\* AppleColorEmoji.ttx left by generate_base_files(force=False).  An
\* element without children is false, so an empty GlyphOrder section counts
\* as missing; iter() returns an iterator, which is never false.
get_valid_emoji_names(file) ==
    IF file.kind # "ttx" THEN [raised |-> TRUE, names |-> <<>>]
    ELSE LET order == GlyphOrder(file) IN
         IF ~order.present \/ order.children = <<>>
         THEN [raised |-> TRUE, names |-> <<>>]
         ELSE YieldNames(order.children, <<>>)

\* What may be found at the path of AppleColorEmoji.ttx.
RegistryTrees == {
    TtxFile(FullTree(Len(ASSET_SIZES))),
    OrderedTree(TRUE, <<GlyphID(u1), GlyphID(<<"u", "2", ".", "0">>)>>),
    \* a name listed twice
    OrderedTree(TRUE, <<GlyphID(u1), GlyphID(u2), GlyphID(u1)>>),
    \* no GlyphOrder section, an empty one, one without GlyphID
    OrderedTree(FALSE, <<>>),
    OrderedTree(TRUE, <<>>),
    OrderedTree(TRUE, <<OtherChild>>),
    \* a glyph without name after a named one
    OrderedTree(TRUE, <<GlyphID(u1), GlyphID(<<>>)>>),
    Garbage,
    Absent }

\* The orders in which a frozenset may be iterated.
Orderings(S) ==
    {o \in [1..Cardinality(S) -> S] : \A i, j \in DOMAIN o : i # j => o[i] # o[j]}

InitRegistry ==
    /\ \E b1 \in RegistryTrees, b2 \in {TtxFile(FullTree(Len(ASSET_SIZES))), Absent} :
          fs = [p \in Paths |-> IF p = BASE_1 THEN b1
                                ELSE IF p = BASE_2 THEN b2
                                ELSE Absent]
    /\ fs0 = fs
    /\ assets_dir = <<>>
    /\ strikes = <<>>
    /\ assets = <<>>
    /\ ignored = <<>>
    /\ successful = <<>>
    /\ ipos = 0
    /\ ipc = "off"
    /\ cache = NoCache
    /\ memo = [set |-> FALSE, value |-> {}]
    /\ loaded = [status |-> "none", value |-> {}]
    /\ rpc = "ready"
    /\ built = {}
    /\ loads = 0
    /\ NormIdle
    /\ BuildIdle
    /\ TaskIdle

\* valid_emoji_names() answered by functools.cache.
LoadMemo ==
    /\ rpc = "ready"
    /\ loads < MaxLoads
    /\ memo.set
    /\ loaded' = [status |-> "memo", value |-> memo.value]
    /\ loads' = loads + 1
    /\ UNCHANGED <<cache, memo, rpc, built>>
    /\ UNCHANGED <<normVars, buildVars, injectVars, taskVars>>

\* valid_emoji_names(), lines 289-290: the cache file is there and not empty.
LoadRead ==
    /\ rpc = "ready"
    /\ loads < MaxLoads
    /\ ~memo.set
    /\ cache_is_built(cache)
    /\ LET names == Range(SplitLines(cache.text)) IN
          /\ loaded' = [status |-> "read", value |-> names]
          /\ memo' = [set |-> TRUE, value |-> names]
    /\ loads' = loads + 1
    /\ UNCHANGED <<cache, rpc, built>>
    /\ UNCHANGED <<normVars, buildVars, injectVars, taskVars>>

\* valid_emoji_names(), line 292: file_path.open("w") creates the file or
\* truncates it, before the names are computed.
LoadOpen ==
    /\ rpc = "ready"
    /\ loads < MaxLoads
    /\ ~memo.set
    /\ ~cache_is_built(cache)
    /\ cache' = TextFile(<<>>)
    /\ rpc' = "building"
    /\ loads' = loads + 1
    /\ UNCHANGED <<memo, loaded, built>>
    /\ UNCHANGED <<normVars, buildVars, injectVars, taskVars>>

\* Lines 293-296 inside the `with`: the names are computed, and unless that
\* raised they are written in the set's iteration order and returned.
Build ==
    /\ rpc = "building"
    /\ LET files == generate_base_files(fs, FALSE)
           r == get_valid_emoji_names(files[BASE_1])
       IN  /\ fs' = files
           /\ IF r.raised
              THEN /\ loaded' = [status |-> "raised", value |-> {}]
                   /\ UNCHANGED <<cache, memo, built>>
              ELSE /\ \E o \in Orderings(Range(r.names)) :
                         cache' = TextFile(join_names(o))
                   /\ memo' = [set |-> TRUE, value |-> Range(r.names)]
                   /\ loaded' = [status |-> "built", value |-> Range(r.names)]
                   /\ built' = Range(r.names)
    /\ rpc' = "ready"
    /\ UNCHANGED loads
    /\ UNCHANGED <<fs0, assets_dir, injectLocal>>
    /\ UNCHANGED <<normVars, buildVars, taskVars>>

\* The process ends and another one starts: functools.cache starts empty.
NewProcess ==
    /\ rpc = "ready"
    /\ memo.set
    /\ memo' = [set |-> FALSE, value |-> {}]
    /\ UNCHANGED <<cache, loaded, rpc, built, loads>>
    /\ UNCHANGED <<normVars, buildVars, injectVars, taskVars>>

\* `macmoji create base-files`: generate_base_files(force=True).
RegenerateBaseFiles ==
    /\ rpc = "ready"
    /\ fs' = generate_base_files(fs, TRUE)
    /\ fs' # fs
    /\ UNCHANGED <<fs0, assets_dir, injectLocal>>
    /\ UNCHANGED <<normVars, buildVars, taskVars, regVars>>

NextRegistry ==
    LoadMemo \/ LoadRead \/ LoadOpen \/ Build \/ NewProcess \/ RegenerateBaseFiles

SpecRegistry == InitRegistry /\ [][NextRegistry]_vars

\* C20: whenever the cache file is not empty its lines are exactly the
\* names of one build that returned, each once; a load returns that set
\* whether it built it, read it from the file or had it memoised; after a
\* build that raised the file is absent or of zero length and nothing is
\* memoised, so the next load builds again.
RegistryCacheConsistent ==
    /\ cache_is_built(cache) =>
          /\ Range(SplitLines(cache.text)) = built
          /\ Len(SplitLines(cache.text)) = Cardinality(built)
    /\ loaded.status \in {"built", "read", "memo"} => loaded.value = built
    /\ loaded.status = "raised" =>
          /\ ~cache_is_built(cache)
          /\ ~memo.set

\* C20 witness: a build raised on a tree without GlyphOrder; after the base
\* files were generated again a load built the three names, and the next
\* process read them back from the cache file.
RegistryCacheConsistentWitness ==
    /\ fs0[BASE_1] = OrderedTree(FALSE, <<>>)
    /\ loaded.status = "read"
    /\ loaded.value = {u1, u2, u3}
    /\ Len(SplitLines(cache.text)) = 3

(***************************************************************************)
(* utils.generate_base_files and font.generate_base_emoji_ttf /            *)
(* generate_base_emoji_ttx: the base trees are generated by three tasks    *)
(* run one after the other; the process may be killed at any point and the *)
(* command run again.                                                      *)
(***************************************************************************)
\* Largest size ttDump's output is seen to grow to before it is complete,
\* in units of 95 MB.
MaxDump == 1

\* output_size of the two decompile tasks, in units of 95 MB.
TTX_SIZE == 6

DecompileTasks == {"task_1", "task_2"}

\* The input of ttDump and the destination of os.replace for a task.
DumpInput(i) == IF i = "task_1" THEN "AppleColorEmoji.ttf" ELSE ".AppleColorEmojiUI.ttf"
DumpTarget(i) == IF i = "task_1" THEN BASE_1 ELSE BASE_2

\* A mutation of TMP_NAME: ttDump writes to the destination itself.
tmp_name_in_place(i) == IF i = "task_1" THEN BASE_1 ELSE BASE_2

\* TMP_NAME = f"{file_name}-tmp.ttx", the output of ttDump.
TMP_NAME(i) ==
    IF i = "task_1" THEN "AppleColorEmoji-tmp.ttx" ELSE ".AppleColorEmojiUI-tmp.ttx"

\* The tasks generate_base_files creates, as constructed.
BaseTasks ==
    [i \in {"ttf"} \cup DecompileTasks |->
        IF i = "ttf" THEN ProgressSimpleTask
        ELSE ProgressFileTask(TMP_NAME(i), TTX_SIZE)]

\* The calls of generate_base_files(force=force), lines 197-229.
BaseProgram(force) == <<
    [op |-> "generate_base_files", task |-> "", force |-> force],
    [op |-> "run", task |-> "ttf"],
    [op |-> "run", task |-> "task_1"],
    [op |-> "run", task |-> "task_2"],
    [op |-> "join", task |-> "task_1"],
    [op |-> "join", task |-> "task_2"],
    [op |-> "cleanup", task |-> ""] >>

\* The tree of the system font, and the tree an earlier generation left.
SystemStrikes == FullTree(Len(ASSET_SIZES))
PreviousTree == TtxFile(FullTree(Len(ASSET_SIZES) - 1))

InitBase ==
    /\ tasks = BaseTasks
    /\ \E force \in BOOLEAN : program = BaseProgram(force)
    /\ ip = 1
    /\ phase = "call"
    /\ joins = Zero(DOMAIN BaseTasks)
    /\ transitions = Zero(DOMAIN BaseTasks)
    /\ runs = 1
    /\ \E b1, b2 \in {PreviousTree, Absent} :
          fs = [p \in Paths |-> IF p = BASE_1 THEN b1
                                ELSE IF p = BASE_2 THEN b2
                                ELSE Absent]
    /\ out_size = 0
    /\ fs0 = fs
    /\ assets_dir = <<>>
    /\ strikes = <<>>
    /\ assets = <<>>
    /\ ignored = <<>>
    /\ successful = <<>>
    /\ ipos = 0
    /\ ipc = "off"
    /\ NormIdle
    /\ BuildIdle
    /\ RegIdle

\* generate_base_files, lines 197-199: without force and with both base
\* trees there, the intermediate files are removed and the call returns.
GenerateEntry ==
    /\ InProgram
    /\ phase = "call"
    /\ Call.op = "generate_base_files"
    /\ IF ~Call.force /\ base_files_exist(fs)
       THEN /\ fs' = [p \in Paths |-> IF p \in CleanupPaths THEN Absent ELSE fs[p]]
            /\ ip' = Len(program) + 1
       ELSE /\ fs' = fs
            /\ ip' = ip + 1
    /\ UNCHANGED <<tasks, program, phase, joins, transitions, out_size, runs>>
    /\ UNCHANGED <<fs0, assets_dir, injectLocal>>
    /\ UNCHANGED <<normVars, buildVars, regVars>>

\* The target generate_base_emoji_ttf: the system font is copied and split
\* into its two sub-fonts, or it is not there and FileNotFoundError ends
\* the thread.
TargetGenerateTtf ==
    /\ tasks["ttf"].target = "running"
    /\ \E found \in BOOLEAN :
          IF found
          THEN /\ tasks' = [tasks EXCEPT !["ttf"].target = "returned"]
               /\ fs' = [fs EXCEPT
                            !["AppleColorEmoji.ttc"] = [kind |-> "ttc",
                                             fonts |-> <<SystemStrikes, SystemStrikes>>],
                            !["AppleColorEmoji.ttf"] = [kind |-> "ttf", strikes |-> SystemStrikes],
                            ![".AppleColorEmojiUI.ttf"] =
                                [kind |-> "ttf", strikes |-> SystemStrikes]]
          ELSE /\ tasks' = [tasks EXCEPT !["ttf"].target = "raised"]
               /\ fs' = fs
    /\ UNCHANGED <<program, ip, phase, joins, transitions, out_size, runs>>
    /\ UNCHANGED <<fs0, assets_dir, injectLocal>>
    /\ UNCHANGED <<normVars, buildVars, regVars>>

\* generate_base_emoji_ttx: ttDump opens the sub-font and creates or
\* truncates its output; a missing sub-font ends the thread before that.
DumpOpen ==
    \E i \in DecompileTasks :
        /\ tasks[i].target = "running"
        /\ IF fs[DumpInput(i)].kind = "ttf"
           THEN /\ tasks' = [tasks EXCEPT ![i].target = "dumping"]
                /\ fs' = [fs EXCEPT ![TMP_NAME(i)] = Partial]
                /\ out_size' = 0
           ELSE /\ tasks' = [tasks EXCEPT ![i].target = "raised"]
                /\ UNCHANGED <<fs, out_size>>
        /\ UNCHANGED <<program, ip, phase, joins, transitions, runs>>
        /\ UNCHANGED <<fs0, assets_dir, injectLocal>>
        /\ UNCHANGED <<normVars, buildVars, regVars>>

\* ttDump writes one more part of the tree to its output.
DumpWrite ==
    \E i \in DecompileTasks :
        /\ tasks[i].target = "dumping"
        /\ out_size < MaxDump
        /\ out_size' = out_size + 1
        /\ UNCHANGED <<tasks, program, ip, phase, joins, transitions, runs>>
        /\ UNCHANGED <<injectVars>>
        /\ UNCHANGED <<normVars, buildVars, regVars>>

\* ttDump returns with its output complete, or raises and leaves it as it
\* is.
DumpEnd ==
    \E i \in DecompileTasks :
        /\ tasks[i].target = "dumping"
        /\ \E ok \in BOOLEAN :
              IF ok
              THEN /\ tasks' = [tasks EXCEPT ![i].target = "dumped"]
                   /\ fs' = [fs EXCEPT ![TMP_NAME(i)] =
                                TtxFile(fs[DumpInput(i)].strikes)]
              ELSE /\ tasks' = [tasks EXCEPT ![i].target = "raised"]
                   /\ fs' = fs
        /\ UNCHANGED <<program, ip, phase, joins, transitions, out_size, runs>>
        /\ UNCHANGED <<fs0, assets_dir, injectLocal>>
        /\ UNCHANGED <<normVars, buildVars, regVars>>

\* os.replace(TMP_NAME, f"{file_name}.ttx"): one atomic rename.
Replace ==
    \E i \in DecompileTasks :
        /\ tasks[i].target = "dumped"
        /\ tasks' = [tasks EXCEPT ![i].target = "returned"]
        /\ fs' = [p \in Paths |->
                    IF p = DumpTarget(i) THEN fs[TMP_NAME(i)]
                    ELSE IF p = TMP_NAME(i) THEN Absent
                    ELSE fs[p]]
        /\ UNCHANGED <<program, ip, phase, joins, transitions, out_size, runs>>
        /\ UNCHANGED <<fs0, assets_dir, injectLocal>>
        /\ UNCHANGED <<normVars, buildVars, regVars>>

\* The process is killed: the caller and every thread stop where they are,
\* the task objects are lost with the process, the files stay.
Interrupt ==
    /\ InProgram
    /\ tasks' = [i \in DOMAIN BaseTasks |->
                    [BaseTasks[i] EXCEPT !.target = "killed", !.observer = "killed"]]
    /\ joins' = Zero(DOMAIN BaseTasks)
    /\ transitions' = Zero(DOMAIN BaseTasks)
    /\ ip' = Len(program) + 1
    /\ phase' = "call"
    /\ UNCHANGED <<program, out_size, runs>>
    /\ UNCHANGED <<normVars, buildVars, injectVars, regVars>>

\* generate_base_files is called again, with or without force.
Regenerate ==
    /\ ip = Len(program) + 1
    /\ runs < MaxRuns
    /\ runs' = runs + 1
    /\ tasks' = BaseTasks
    /\ \E force \in BOOLEAN : program' = BaseProgram(force)
    /\ ip' = 1
    /\ joins' = Zero(DOMAIN BaseTasks)
    /\ transitions' = Zero(DOMAIN BaseTasks)
    /\ UNCHANGED <<phase, out_size>>
    /\ UNCHANGED <<normVars, buildVars, injectVars, regVars>>

NextBase ==
    \/ GenerateEntry \/ RunStart \/ JoinTarget \/ JoinProgress \/ Cleanup
    \/ ObserverEnter \/ ObserverCheck \/ ObserverPoll \/ ObserverExit
    \/ TargetGenerateTtf \/ DumpOpen \/ DumpWrite \/ DumpEnd \/ Replace
    \/ Interrupt \/ Regenerate

SpecBase == InitBase /\ [][NextBase]_vars

\* A complete tree: the one an earlier generation left or the one
\* decompiled from the system font.
CompleteTrees == {PreviousTree, TtxFile(SystemStrikes)}

\* C21: at every point of a decompilation, a killed one included, each base
\* tree path is absent or holds the previous or the new complete tree; a
\* partially written file exists only at a -tmp.ttx path, so whenever
\* base_files_exist holds both base trees are complete.
DecompileInterruptionSafe ==
    /\ \A b \in {BASE_1, BASE_2} : fs[b] = Absent \/ fs[b] \in CompleteTrees
    /\ \A p \in Paths :
          fs[p].kind = "partial" =>
              p \in {"AppleColorEmoji-tmp.ttx", ".AppleColorEmojiUI-tmp.ttx"}
    /\ base_files_exist(fs) => (fs[BASE_1] \in CompleteTrees /\ fs[BASE_2] \in CompleteTrees)

\* C21 witness: the process was killed while the second sub-font was being
\* decompiled over an earlier tree: the first base tree is the new one, the
\* second still the previous one, and the partial output is at the
\* temporary path.
DecompileInterruptionSafeWitness ==
    /\ tasks["task_2"].target = "killed"
    /\ fs[".AppleColorEmojiUI-tmp.ttx"] = Partial
    /\ fs0[BASE_2] = PreviousTree
    /\ fs[BASE_2] = PreviousTree
    /\ fs[BASE_1] = TtxFile(SystemStrikes)

====
